---- MODULE Spec2Model ----
(***************************************************************************)
(* Model of scripts/import_ios_translations.py: the import of iOS          *)
(* Localizable.xcstrings translations into Android values-XX/strings.xml.  *)
(*                                                                         *)
(* A text is a sequence of one-character strings, so that the replacements *)
(* the script performs (str.replace, re.sub, strip, startswith) are        *)
(* computed character by character as Python computes them.                *)
(***************************************************************************)
EXTENDS Integers, Sequences, FiniteSets, TLC

VARIABLES
    text,            \* text functions: the current text
    src,             \* text functions: the text the last function was applied to
    op,              \* text functions: the last function applied
    pc,              \* position of the process in main / generate_translated_strings_xml
    proc,            \* the process: running, or exited with an exit status
    ios_exists,      \* file system: Localizable.xcstrings exists
    android_exists,  \* file system: values/strings.xml exists
    ios_file,        \* file system: the JSON document of Localizable.xcstrings
    android_file,    \* file system: the <resources> children of values/strings.xml
    created,         \* file system: locale directories made by this run
    files,           \* file system: locale directory -> strings.xml written by this run
    ios_strings,     \* main: loaded source records, in document order
    android_strings, \* main: parsed destination records, in document order
    text_to_names,   \* main: reverse index English text -> resource names
    lang_i,          \* main: index of the current entry of ANDROID_LOCALE_DIRS
    i,               \* generate: index of the current destination record
    translations,    \* generate: android_name -> converted translation
    via,             \* generate: android_name -> the step that assigned `translated`
    matched_count,   \* generate: number of translated names
    unmatched_names, \* generate: names without a translation, in order
    lines            \* generate: the lines of the document

textVars == <<text, src, op>>
fsVars   == <<ios_exists, android_exists, ios_file, android_file, created, files>>
mainVars == <<proc, ios_strings, android_strings, text_to_names, lang_i>>
genVars  == <<i, translations, via, matched_count, unmatched_names, lines>>
vars == <<text, src, op, pc, proc, ios_exists, android_exists, ios_file, android_file,
          created, files, ios_strings, android_strings, text_to_names, lang_i,
          i, translations, via, matched_count, unmatched_names, lines>>

----------------------------------------------------------------------------
(* Bounds of the model *)

\* longest input text of the text-function specifications
MaxLen == 4

\* most source records of a drawn xcstrings document
MaxIos == 2

\* most destination records of a drawn strings.xml document
MaxAndroid == 2

----------------------------------------------------------------------------
(* Python string primitives *)

\* the decimal digits matched by \d
Digits == {"0", "1", "2", "3", "4", "5", "6", "7", "8", "9"}

\* characters matched by \s and removed by str.strip(): the ones the texts
\* of the model are made of
Whitespace == {" ", "\t", "\n"}

\* str.startswith(prefix)
StartsWith(t, prefix) ==
    /\ Len(t) >= Len(prefix)
    /\ SubSeq(t, 1, Len(prefix)) = prefix

\* str.replace(old, new): leftmost non-overlapping occurrences, old non-empty
RECURSIVE Replace(_, _, _)
Replace(t, old, new) ==
    IF Len(t) < Len(old) THEN t
    ELSE IF StartsWith(t, old)
         THEN new \o Replace(SubSeq(t, Len(old) + 1, Len(t)), old, new)
         ELSE <<Head(t)>> \o Replace(Tail(t), old, new)

\* number of leading characters of t that are digits (the greedy \d+ run)
RECURSIVE DigitRun(_)
DigitRun(t) ==
    IF t # <<>> /\ Head(t) \in Digits THEN 1 + DigitRun(Tail(t)) ELSE 0

\* re.sub(r'%(\d+)\$X', r'%\1$Y', t) for a one-character X and a text Y
RECURSIVE SubPositional(_, _, _)
SubPositional(t, x, y) ==
    IF t = <<>> THEN <<>>
    ELSE LET n == DigitRun(Tail(t)) IN
         IF /\ Head(t) = "%"
            /\ n >= 1
            /\ Len(t) >= n + 3
            /\ t[n + 2] = "$"
            /\ t[n + 3] = x
         THEN SubSeq(t, 1, n + 2) \o y \o SubPositional(SubSeq(t, n + 4, Len(t)), x, y)
         ELSE <<Head(t)>> \o SubPositional(Tail(t), x, y)

\* str.lstrip() / str.rstrip() / str.strip()
RECURSIVE LStrip(_)
LStrip(t) == IF t # <<>> /\ Head(t) \in Whitespace THEN LStrip(Tail(t)) ELSE t

RECURSIVE RStrip(_)
RStrip(t) ==
    IF t # <<>> /\ t[Len(t)] \in Whitespace THEN RStrip(SubSeq(t, 1, Len(t) - 1)) ELSE t

Strip(t) == LStrip(RStrip(t))

\* re.sub(r'\s+', ' ', t): every maximal whitespace run becomes one space
RECURSIVE CollapseWhitespace(_)
CollapseWhitespace(t) ==
    IF t = <<>> THEN <<>>
    ELSE IF Head(t) \in Whitespace
         THEN <<" ">> \o CollapseWhitespace(LStrip(t))
         ELSE <<Head(t)>> \o CollapseWhitespace(Tail(t))

----------------------------------------------------------------------------
(* The text functions of the script *)

\* a converter that maps %li to %ld, a form it rewrites itself
convert_li_to_ld(t) ==
    IF t = <<>> THEN t
    ELSE LET r1 == SubPositional(t, "@", <<"s">>)
             r2 == Replace(r1, <<"%", "@">>, <<"%", "s">>)
             r3 == Replace(r2, <<"%", "l", "l", "d">>, <<"%", "d">>)
             r4 == Replace(r3, <<"%", "l", "d">>, <<"%", "d">>)
             r5 == Replace(r4, <<"%", "l", "l", "u">>, <<"%", "d">>)
             r6 == Replace(r5, <<"%", "l", "u">>, <<"%", "d">>)
             r7 == Replace(r6, <<"%", "l", "i">>, <<"%", "l", "d">>)
         IN r7

convert_ios_format_to_android(t) ==
    IF t = <<>> THEN t
    ELSE LET r1 == SubPositional(t, "@", <<"s">>)
             r2 == Replace(r1, <<"%", "@">>, <<"%", "s">>)
             r3 == Replace(r2, <<"%", "l", "l", "d">>, <<"%", "d">>)
             r4 == Replace(r3, <<"%", "l", "d">>, <<"%", "d">>)
             r5 == Replace(r4, <<"%", "l", "l", "u">>, <<"%", "d">>)
             r6 == Replace(r5, <<"%", "l", "u">>, <<"%", "d">>)
             r7 == Replace(r6, <<"%", "l", "i">>, <<"%", "d">>)
         IN r7

\* an escaping that escapes every @, not only a leading one
escape_every_at(t) ==
    IF t = <<>> THEN t
    ELSE LET e1 == Replace(t, <<"&">>, <<"&", "a", "m", "p", ";">>)
             e2 == Replace(e1, <<"<">>, <<"&", "l", "t", ";">>)
             e3 == Replace(e2, <<">">>, <<"&", "g", "t", ";">>)
             e4 == Replace(e3, <<"'">>, <<"\\", "'">>)
             e5 == Replace(e4, <<"\"">>, <<"\\", "\"">>)
         IN Replace(e5, <<"@">>, <<"\\", "@">>)

escape_android_xml(t) ==
    IF t = <<>> THEN t
    ELSE LET e1 == Replace(t, <<"&">>, <<"&", "a", "m", "p", ";">>)
             e2 == Replace(e1, <<"<">>, <<"&", "l", "t", ";">>)
             e3 == Replace(e2, <<">">>, <<"&", "g", "t", ";">>)
             e4 == Replace(e3, <<"'">>, <<"\\", "'">>)
             e5 == Replace(e4, <<"\"">>, <<"\\", "\"">>)
         IN IF StartsWith(e5, <<"@">>) THEN <<"\\">> \o e5 ELSE e5

unescape_android_xml(t) ==
    LET u1 == Replace(t, <<"\\", "'">>, <<"'">>)
        u2 == Replace(u1, <<"\\", "\"">>, <<"\"">>)
        u3 == Replace(u2, <<"&", "a", "m", "p", ";">>, <<"&">>)
        u4 == Replace(u3, <<"&", "l", "t", ";">>, <<"<">>)
        u5 == Replace(u4, <<"&", "g", "t", ";">>, <<">">>)
    IN IF StartsWith(u5, <<"\\", "@">>) THEN Tail(u5) ELSE u5

normalize_for_matching(t) == CollapseWhitespace(Strip(t))

\* the Android-to-iOS placeholder rewrite used for matching
ios_format(raw) ==
    LET g1 == Replace(raw, <<"%", "s">>, <<"%", "@">>)
        g2 == Replace(g1, <<"%", "d">>, <<"%", "l", "l", "d">>)
        g3 == SubPositional(g2, "s", <<"@">>)
        g4 == SubPositional(g3, "d", <<"l", "l", "d">>)
    IN g4

----------------------------------------------------------------------------
(* Records and documents *)

\* the locale table, in the order the dict is written: <<locale, directory>>
ANDROID_LOCALE_DIRS ==
    << <<"de", "values-de">>, <<"fr", "values-fr">>, <<"hi", "values-hi">>,
       <<"it", "values-it">>, <<"ja", "values-ja">>, <<"ko", "values-ko">>,
       <<"nb", "values-b+nb">>, <<"nl", "values-nl">>,
       <<"pt-BR", "values-b+pt+BR">>, <<"ro", "values-ro">>,
       <<"ru", "values-ru">>, <<"zh-Hans", "values-b+zh+Hans">>,
       <<"zh-Hant", "values-b+zh+Hant">> >>

LocaleDirs == {ANDROID_LOCALE_DIRS[k][2] : k \in 1..Len(ANDROID_LOCALE_DIRS)}

\* the target_lang argument of the current call of generate_translated_strings_xml
target_lang == ANDROID_LOCALE_DIRS[lang_i][1]

\* a dict is a sequence of [name, value] items in insertion order;
\* d[name] = value keeps the position of a name that is already there
DictNames(d) == {d[k].name : k \in 1..Len(d)}

DictPut(d, name, value) ==
    IF name \in DictNames(d)
    THEN [k \in 1..Len(d) |-> IF d[k].name = name THEN [name |-> name, value |-> value] ELSE d[k]]
    ELSE Append(d, [name |-> name, value |-> value])

\* the <resources> children are [tag, name, text]; only 'string' elements are kept
RECURSIVE parse_android_strings_from(_, _, _)
parse_android_strings_from(elems, k, strings) ==
    IF k > Len(elems) THEN strings
    ELSE parse_android_strings_from(elems, k + 1,
            IF elems[k].tag = "string"
            THEN DictPut(strings, elems[k].name, elems[k].text)
            ELSE strings)

parse_android_strings(elems) == parse_android_strings_from(elems, 1, <<>>)

\* the JSON document is a record; data.get('strings', {})
load_ios_translations(data) ==
    IF "strings" \in DOMAIN data THEN data.strings ELSE <<>>

\* a source record is [key, localizations]; localizations maps some locales to
\* the stringUnit value. su.get('value') of a locale that is absent is None,
\* which is as false as the empty text: both are <<>> here
StringUnitValue(ios_value, lang) ==
    IF lang \in DOMAIN ios_value.localizations
    THEN ios_value.localizations[lang]
    ELSE <<>>

IosKeys(ios) == {ios[k].key : k \in 1..Len(ios)}

\* ios_strings[key], for a key that is in ios_strings
IosGet(ios, key) == ios[CHOOSE k \in 1..Len(ios) : ios[k].key = key]

\* the 'exact' and the 'iOS format' lookups: the value of the record at key, if any
LookupValue(ios, key, lang) ==
    IF key \in IosKeys(ios) THEN StringUnitValue(IosGet(ios, key), lang) ELSE <<>>

\* the positions of the candidates the normalized scan stops at
NormalizedHits(ios, normalized_key, lang) ==
    {k \in 1..Len(ios) :
        /\ normalize_for_matching(ios[k].key) = normalized_key
        /\ StringUnitValue(ios[k], lang) # <<>>}

\* a scan without the break: the last candidate's value stays
NormalizedValue_last(ios, normalized_key, lang) ==
    LET hits == NormalizedHits(ios, normalized_key, lang) IN
    IF hits = {} THEN <<>>
    ELSE StringUnitValue(ios[CHOOSE k \in hits : \A h \in hits : k >= h], lang)

\* the normalized scan: the value at which the loop breaks, if it does
NormalizedValue(ios, normalized_key, lang) ==
    LET hits == NormalizedHits(ios, normalized_key, lang) IN
    IF hits = {} THEN <<>>
    ELSE StringUnitValue(ios[CHOOSE k \in hits : \A h \in hits : k <= h], lang)

\* a loop body that does not try further once the English text is a key
Translate_key_found_ends(english_value, ios, lang) ==
    LET raw_english == unescape_android_xml(english_value)
        normalized_key == normalize_for_matching(raw_english)
        exact == LookupValue(ios, raw_english, lang)
        normalized == NormalizedValue(ios, normalized_key, lang)
        generic == LookupValue(ios, ios_format(raw_english), lang)
    IN IF raw_english \in IosKeys(ios)
       THEN [via |-> IF exact # <<>> THEN "exact" ELSE "none", translated |-> exact]
       ELSE IF normalized # <<>> THEN [via |-> "normalized", translated |-> normalized]
       ELSE IF generic # <<>> THEN [via |-> "generic", translated |-> generic]
       ELSE [via |-> "none", translated |-> <<>>]

\* a loop body that tries the normalized scan before the exact lookup
Translate_normalized_first(english_value, ios, lang) ==
    LET raw_english == unescape_android_xml(english_value)
        normalized_key == normalize_for_matching(raw_english)
        exact == LookupValue(ios, raw_english, lang)
        normalized == NormalizedValue(ios, normalized_key, lang)
        generic == LookupValue(ios, ios_format(raw_english), lang)
    IN IF normalized # <<>> THEN [via |-> "normalized", translated |-> normalized]
       ELSE IF exact # <<>> THEN [via |-> "exact", translated |-> exact]
       ELSE IF generic # <<>> THEN [via |-> "generic", translated |-> generic]
       ELSE [via |-> "none", translated |-> <<>>]

\* the three attempts of the loop body, in order; `translated` stays None (<<>>)
\* when none assigns it
Translate(english_value, ios, lang) ==
    LET raw_english == unescape_android_xml(english_value)
        normalized_key == normalize_for_matching(raw_english)
        exact == LookupValue(ios, raw_english, lang)
        normalized == NormalizedValue(ios, normalized_key, lang)
        generic == LookupValue(ios, ios_format(raw_english), lang)
    IN IF exact # <<>> THEN [via |-> "exact", translated |-> exact]
       ELSE IF normalized # <<>> THEN [via |-> "normalized", translated |-> normalized]
       ELSE IF generic # <<>> THEN [via |-> "generic", translated |-> generic]
       ELSE [via |-> "none", translated |-> <<>>]

\* a test for the application name with the name misspelt
SkipName_misspelt(android_name) == android_name = "appname"

\* the name that is never translated
SkipName(android_name) == android_name = "app_name"

\* the lines of the document
XmlDeclLine == [kind |-> "xml_decl"]
OpenLine == [kind |-> "resources_open"]
CloseLine == [kind |-> "resources_close"]
BlankLine == [kind |-> "blank"]
StringLine(android_name, escaped) ==
    [kind |-> "string", name |-> android_name, text |-> escaped]

\* the keys the reverse index gets for one English value
MapKeys(english) ==
    LET raw == unescape_android_xml(english)
    IN {normalize_for_matching(raw), normalize_for_matching(ios_format(raw))}

\* text_to_names: each key maps to the names whose value gives that key, in order
build_english_to_android_map(strings) ==
    LET keys == UNION {MapKeys(strings[k].value) : k \in 1..Len(strings)}
        NamesOf(key) ==
            LET hit(item) == key \in MapKeys(item.value)
                sel == SelectSeq(strings, hit)
            IN [k \in 1..Len(sel) |-> sel[k].name]
    IN [key \in keys |-> NamesOf(key)]

----------------------------------------------------------------------------
(* generate_translated_strings_xml, one loop iteration at a time *)

\* one iteration of the first loop: resolve the record at i
GenResolve ==
    /\ pc = "resolve"
    /\ i <= Len(android_strings)
    /\ LET android_name == android_strings[i].name
           r == Translate(android_strings[i].value, ios_strings, target_lang)
       IN IF SkipName(android_name)
          THEN UNCHANGED <<translations, via, matched_count, unmatched_names>>
          ELSE IF r.translated # <<>>
               THEN /\ translations' =
                          (android_name :> convert_ios_format_to_android(r.translated))
                          @@ translations
                    /\ via' = (android_name :> r.via) @@ via
                    /\ matched_count' = matched_count + 1
                    /\ UNCHANGED unmatched_names
               ELSE /\ unmatched_names' = Append(unmatched_names, android_name)
                    /\ via' = (android_name :> r.via) @@ via
                    /\ UNCHANGED <<translations, matched_count>>
    /\ i' = i + 1
    /\ UNCHANGED <<pc, lines>>
    /\ UNCHANGED <<textVars, fsVars, mainVars>>

\* the first loop is over: start the document
GenHeader ==
    /\ pc = "resolve"
    /\ i > Len(android_strings)
    /\ lines' = <<XmlDeclLine, OpenLine>>
    /\ i' = 1
    /\ pc' = "emit"
    /\ UNCHANGED <<translations, via, matched_count, unmatched_names>>
    /\ UNCHANGED <<textVars, fsVars, mainVars>>

\* a second loop that puts each new entry first in the document body
GenEmit_newest_first ==
    /\ pc = "emit"
    /\ i <= Len(android_strings)
    /\ LET android_name == android_strings[i].name
       IN IF ~SkipName(android_name) /\ android_name \in DOMAIN translations
          THEN lines' = SubSeq(lines, 1, 2)
                   \o <<StringLine(android_name, escape_android_xml(translations[android_name]))>>
                   \o SubSeq(lines, 3, Len(lines))
          ELSE UNCHANGED lines
    /\ i' = i + 1
    /\ UNCHANGED <<pc, translations, via, matched_count, unmatched_names>>
    /\ UNCHANGED <<textVars, fsVars, mainVars>>

\* one iteration of the second loop: write the record at i if it was translated
GenEmit ==
    /\ pc = "emit"
    /\ i <= Len(android_strings)
    /\ LET android_name == android_strings[i].name
       IN IF ~SkipName(android_name) /\ android_name \in DOMAIN translations
          THEN lines' = Append(lines,
                   StringLine(android_name, escape_android_xml(translations[android_name])))
          ELSE UNCHANGED lines
    /\ i' = i + 1
    /\ UNCHANGED <<pc, translations, via, matched_count, unmatched_names>>
    /\ UNCHANGED <<textVars, fsVars, mainVars>>

\* the second loop is over: close the document and return it
GenReturn ==
    /\ pc = "emit"
    /\ i > Len(android_strings)
    /\ lines' = lines \o <<CloseLine, BlankLine>>
    /\ pc' = "write"
    /\ UNCHANGED <<i, translations, via, matched_count, unmatched_names>>
    /\ UNCHANGED <<textVars, fsVars, mainVars>>

----------------------------------------------------------------------------
(* main *)

Running == [state |-> "running"]
Exited(code) == [state |-> "exited", code |-> code]

\* if not ios_path.exists(): sys.exit(1)
CheckIos ==
    /\ pc = "start"
    /\ IF ios_exists
       THEN pc' = "check_android" /\ UNCHANGED proc
       ELSE pc' = "exited" /\ proc' = Exited(1)
    /\ UNCHANGED <<ios_strings, android_strings, text_to_names, lang_i>>
    /\ UNCHANGED <<textVars, fsVars, genVars>>

\* a check of the destination file that reports nothing and goes on
CheckAndroid_goes_on ==
    /\ pc = "check_android"
    /\ pc' = "load_ios"
    /\ UNCHANGED proc
    /\ UNCHANGED <<ios_strings, android_strings, text_to_names, lang_i>>
    /\ UNCHANGED <<textVars, fsVars, genVars>>

\* if not android_strings_path.exists(): sys.exit(1)
CheckAndroid ==
    /\ pc = "check_android"
    /\ IF android_exists
       THEN pc' = "load_ios" /\ UNCHANGED proc
       ELSE pc' = "exited" /\ proc' = Exited(1)
    /\ UNCHANGED <<ios_strings, android_strings, text_to_names, lang_i>>
    /\ UNCHANGED <<textVars, fsVars, genVars>>

LoadIos ==
    /\ pc = "load_ios"
    /\ ios_strings' = load_ios_translations(ios_file)
    /\ pc' = "load_android"
    /\ UNCHANGED <<proc, android_strings, text_to_names, lang_i>>
    /\ UNCHANGED <<textVars, fsVars, genVars>>

LoadAndroid ==
    /\ pc = "load_android"
    /\ android_strings' = parse_android_strings(android_file)
    /\ pc' = "build_map"
    /\ UNCHANGED <<proc, ios_strings, text_to_names, lang_i>>
    /\ UNCHANGED <<textVars, fsVars, genVars>>

BuildMap ==
    /\ pc = "build_map"
    /\ text_to_names' = build_english_to_android_map(android_strings)
    /\ lang_i' = 1
    /\ pc' = "mkdir"
    /\ UNCHANGED <<proc, ios_strings, android_strings>>
    /\ UNCHANGED <<textVars, fsVars, genVars>>

\* the head of the locale loop: make the directory and call generate
Mkdir ==
    /\ pc = "mkdir"
    /\ created' = created \cup {ANDROID_LOCALE_DIRS[lang_i][2]}
    /\ i' = 1
    /\ translations' = <<>>
    /\ via' = <<>>
    /\ matched_count' = 0
    /\ unmatched_names' = <<>>
    /\ lines' = <<>>
    /\ pc' = "resolve"
    /\ UNCHANGED <<ios_exists, android_exists, ios_file, android_file, files>>
    /\ UNCHANGED <<textVars, mainVars>>

\* the tail of the locale loop: write the document, go to the next locale
WriteFile ==
    /\ pc = "write"
    /\ files' = (ANDROID_LOCALE_DIRS[lang_i][2] :> lines) @@ files
    /\ IF lang_i < Len(ANDROID_LOCALE_DIRS)
       THEN lang_i' = lang_i + 1 /\ pc' = "mkdir"
       ELSE pc' = "done" /\ UNCHANGED lang_i
    /\ UNCHANGED <<ios_exists, android_exists, ios_file, android_file, created>>
    /\ UNCHANGED <<proc, ios_strings, android_strings, text_to_names>>
    /\ UNCHANGED <<textVars, genVars>>

\* main returns: the interpreter exits with status 0
Done ==
    /\ pc = "done"
    /\ proc' = Exited(0)
    /\ pc' = "exited"
    /\ UNCHANGED <<ios_strings, android_strings, text_to_names, lang_i>>
    /\ UNCHANGED <<textVars, fsVars, genVars>>

----------------------------------------------------------------------------
(* The run of the script: the two input files are given, main runs once *)

\* the English values, keys and translations the documents are made of:
\* the value \'%d unescapes to '%d, which is a key, normalizes like two
\* other keys, and is '%lld in iOS format
EnglishValues == {<<"\\", "'", "%", "d">>, <<"\\", "'", "%", "d", " ">>}

SourceKeys ==
    {<<"'", "%", "d">>, <<"'", "%", "d", " ">>, <<" ", "'", "%", "d">>,
     <<"'", "%", "l", "l", "d">>}

Localizations ==
    {("de" :> <<"%", "@">>),
     ("de" :> <<>>) @@ ("fr" :> <<"<">>),
     ("de" :> <<"@", "'">>) @@ ("fr" :> <<"%", "l", "l", "d">>)}

AndroidNames == {"app_name", "title", "ok"}

SourceRecords == {[key |-> k, localizations |-> l] : k \in SourceKeys, l \in Localizations}

DestinationItems == {[name |-> n, value |-> v] : n \in AndroidNames, v \in EnglishValues}

\* the dicts of at most n items of a set, no key twice
IosDicts(n) ==
    {d \in UNION {[1..k -> SourceRecords] : k \in 0..n} :
        \A a, b \in 1..Len(d) : a # b => d[a].key # d[b].key}

AndroidDicts(n) ==
    {d \in UNION {[1..k -> DestinationItems] : k \in 0..n} :
        \A a, b \in 1..Len(d) : a # b => d[a].name # d[b].name}

\* the documents main is run on
AndroidFiles ==
    {<<>>,
     <<[tag |-> "string", name |-> "app_name", text |-> <<"\\", "'", "%", "d">>],
       [tag |-> "plurals", name |-> "count", text |-> <<>>],
       [tag |-> "string", name |-> "title", text |-> <<"\\", "'", "%", "d">>],
       [tag |-> "string", name |-> "ok", text |-> <<"%", "d">>]>>,
     <<[tag |-> "string", name |-> "title", text |-> <<"\\", "'", "%", "d", " ">>],
       [tag |-> "string", name |-> "ok", text |-> <<"o", "k">>],
       [tag |-> "string", name |-> "title", text |-> <<"%", "d">>]>>}

IosFiles ==
    {[version |-> <<"1", ".", "0">>],
     [strings |->
        <<[key |-> <<" ", "'", "%", "d">>, localizations |-> ("de" :> <<>>) @@ ("fr" :> <<"<">>)],
          [key |-> <<"'", "%", "d">>, localizations |-> ("de" :> <<"%", "@">>)],
          [key |-> <<"%", "l", "l", "d">>, localizations |-> ("de" :> <<"@", "'">>) @@ ("ja" :> <<"%", "l", "d">>)]>>],
     [strings |->
        <<[key |-> <<"%", "d", " ">>, localizations |-> ("zh-Hant" :> <<"&">>)],
          [key |-> <<"o", "k">>, localizations |-> <<>>]>>]}

TextIdle ==
    /\ text = <<>>
    /\ src = <<>>
    /\ op = "none"

GenEntry ==
    /\ i = 1
    /\ translations = <<>>
    /\ via = <<>>
    /\ matched_count = 0
    /\ unmatched_names = <<>>
    /\ lines = <<>>

Init ==
    /\ TextIdle
    /\ pc = "start"
    /\ proc = Running
    /\ ios_exists \in BOOLEAN
    /\ android_exists \in BOOLEAN
    /\ ios_file \in IosFiles
    /\ android_file \in AndroidFiles
    /\ created = {}
    /\ files = <<>>
    /\ ios_strings = <<>>
    /\ android_strings = <<>>
    /\ text_to_names = <<>>
    /\ lang_i = 1
    /\ GenEntry

Next ==
    \/ CheckIos
    \/ CheckAndroid
    \/ LoadIos
    \/ LoadAndroid
    \/ BuildMap
    \/ Mkdir
    \/ GenResolve
    \/ GenHeader
    \/ GenEmit
    \/ GenReturn
    \/ WriteFile
    \/ Done

Spec == Init /\ [][Next]_vars

----------------------------------------------------------------------------
(* generate_translated_strings_xml called on any two dicts and a locale *)

\* positions in ANDROID_LOCALE_DIRS of the locales the calls are made for
GenLocales == {1, 2}

InitGen ==
    /\ TextIdle
    /\ pc = "resolve"
    /\ proc = Running
    /\ ios_exists = TRUE
    /\ android_exists = TRUE
    /\ ios_strings \in IosDicts(MaxIos)
    /\ android_strings \in AndroidDicts(MaxAndroid)
    /\ ios_file = [strings |-> ios_strings]
    /\ android_file =
          [k \in 1..Len(android_strings) |->
              [tag |-> "string", name |-> android_strings[k].name,
               text |-> android_strings[k].value]]
    /\ created = {}
    /\ files = <<>>
    /\ text_to_names = build_english_to_android_map(android_strings)
    /\ lang_i \in GenLocales
    /\ GenEntry

NextGen ==
    \/ GenResolve
    \/ GenHeader
    \/ GenEmit
    \/ GenReturn

SpecGen == InitGen /\ [][NextGen]_vars

----------------------------------------------------------------------------
(* Specifications of the text functions: an input text is drawn from all   *)
(* texts over an alphabet up to MaxLen characters, and the functions are   *)
(* applied to it, one after the other.                                     *)

TextsOver(alphabet, n) == UNION {[1..k -> alphabet] : k \in 0..n}

\* placeholder characters of both platforms
FormatChars == {"%", "@", "l", "d", "u", "i", "s", "1", "$"}

\* characters the escaping acts on, and the ones its escapes are made of
MarkupChars == {"&", "<", "'", "\"", "\\", "@", "l", "t", ";"}

\* both kinds together
MixedChars == {"%", "@", "l", "d", "u", "1", "$", "<", "&", "'"}

Apply(name, result) ==
    /\ Len(text) <= MaxLen
    /\ src' = text
    /\ text' = result
    /\ op' = name
    /\ UNCHANGED <<pc, fsVars, mainVars, genVars>>

Convert   == Apply("convert", convert_ios_format_to_android(text))
Escape    == Apply("escape", escape_android_xml(text))
Unescape  == Apply("unescape", unescape_android_xml(text))
IosFormat == Apply("ios_format", ios_format(text))

\* the script is not running: the functions are called on their own
PipelineIdle ==
    /\ pc = "lib"
    /\ proc = Running
    /\ ios_exists = FALSE
    /\ android_exists = FALSE
    /\ ios_file = [strings |-> <<>>]
    /\ android_file = <<>>
    /\ created = {}
    /\ files = <<>>
    /\ ios_strings = <<>>
    /\ android_strings = <<>>
    /\ text_to_names = <<>>
    /\ lang_i = 1
    /\ GenEntry

InitText(alphabet) ==
    /\ text \in TextsOver(alphabet, MaxLen)
    /\ src = text
    /\ op = "input"
    /\ PipelineIdle

InitFormat == InitText(FormatChars)
NextFormat == Convert \/ IosFormat
SpecFormat == InitFormat /\ [][NextFormat]_vars

InitMarkup == InitText(MarkupChars)
NextMarkup == Escape \/ Unescape
SpecMarkup == InitMarkup /\ [][NextMarkup]_vars

InitMixed == InitText(MixedChars)
NextMixed == Convert \/ Escape
SpecMixed == InitMixed /\ [][NextMixed]_vars

----------------------------------------------------------------------------
(* What the claims are stated with *)

\* the names of the <string> lines of the document, in order
RECURSIVE WrittenNamesOf(_)
WrittenNamesOf(ls) ==
    IF ls = <<>> THEN <<>>
    ELSE IF Head(ls).kind = "string"
         THEN <<Head(ls).name>> \o WrittenNamesOf(Tail(ls))
         ELSE WrittenNamesOf(Tail(ls))

WrittenNames == WrittenNamesOf(lines)

Range(f) == {f[k] : k \in DOMAIN f}

\* the text the document holds for a name: the set of the texts of its lines
WrittenTexts(android_name) ==
    {lines[k].text : k \in {j \in 1..Len(lines) :
                              lines[j].kind = "string" /\ lines[j].name = android_name}}

\* the destination records a claim is about: all but the application name
Translatable == {k \in 1..Len(android_strings) : android_strings[k].name # "app_name"}

RawEnglish(k) == unescape_android_xml(android_strings[k].value)

\* the record at position j holds a non-empty value for the locale
HoldsValue(j) ==
    /\ target_lang \in DOMAIN ios_strings[j].localizations
    /\ ios_strings[j].localizations[target_lang] # <<>>

\* the source records that a resolution step looks at for a destination text
ExactAt(raw) == {j \in 1..Len(ios_strings) : ios_strings[j].key = raw}

NormalizedAt(raw) ==
    {j \in 1..Len(ios_strings) :
        normalize_for_matching(ios_strings[j].key) = normalize_for_matching(raw)}

GenericAt(raw) == {j \in 1..Len(ios_strings) : ios_strings[j].key = ios_format(raw)}

\* some step yields a record with a non-empty value for the locale
Available(raw) ==
    \E j \in ExactAt(raw) \cup NormalizedAt(raw) \cup GenericAt(raw) : HoldsValue(j)

Least(S) == CHOOSE k \in S : \A h \in S : k <= h

\* what is written for a translation
Emitted(value) == escape_android_xml(convert_ios_format_to_android(value))

----------------------------------------------------------------------------
(* C1: every name written is a key of the destination records, and the     *)
(* name app_name is never written, whatever its English text resolves to   *)
C1_OnlyDestinationNames ==
    \A k \in 1..Len(lines) :
        lines[k].kind = "string" =>
            /\ lines[k].name \in DictNames(android_strings)
            /\ lines[k].name # "app_name"

C1_Witness ==
    /\ pc = "write"
    /\ WrittenNames # <<>>
    /\ \E k \in 1..Len(android_strings) :
          /\ android_strings[k].name = "app_name"
          /\ Available(RawEnglish(k))

(* C2: with an input file missing the process exits with status 1 before   *)
(* any directory is made or file written, the source file is checked       *)
(* first, and status 0 is reached only with every locale file written      *)
C2_MissingInputIsFatal ==
    /\ (~ios_exists \/ ~android_exists) =>
          /\ created = {}
          /\ files = <<>>
          /\ pc \in {"start", "check_android", "exited"}
          /\ pc = "exited" => proc = Exited(1)
    /\ ~ios_exists => pc \in {"start", "exited"}
    /\ proc = Exited(0) =>
          \A d \in LocaleDirs : d \in created /\ d \in DOMAIN files

C2_Witness ==
    /\ proc = Exited(1)
    /\ ios_exists
    /\ ~android_exists

(* C3: a name other than app_name is written exactly if some step yields a *)
(* record with a non-empty value for the locale; otherwise it is recorded  *)
(* as unmatched, nothing fails, and the records after it are processed     *)
C3_WrittenIffAvailable ==
    /\ pc \in {"resolve", "emit", "write"} =>
          /\ proc = Running
          /\ \A k \in Translatable :
                (pc = "resolve" => k < i) =>
                    (android_strings[k].name \in Range(unmatched_names)
                        <=> ~Available(RawEnglish(k)))
    /\ pc = "write" =>
          /\ i = Len(android_strings) + 1
          /\ matched_count + Len(unmatched_names) = Cardinality(Translatable)
          /\ \A k \in Translatable :
                android_strings[k].name \in Range(WrittenNames)
                    <=> Available(RawEnglish(k))

C3_Witness ==
    /\ pc = "write"
    /\ \E a, b \in Translatable :
          /\ a < b
          /\ ExactAt(RawEnglish(a)) # {}
          /\ ~Available(RawEnglish(a))
          /\ android_strings[a].name \in Range(unmatched_names)
          /\ android_strings[b].name \in Range(WrittenNames)

(* C4: a destination text that is itself a source key with a non-empty     *)
(* value gets that record's translation, whatever else matches; a later    *)
(* step is used only when the steps before it gave nothing                 *)
C4_FirstSuccessWins ==
    pc = "write" =>
        \A k \in Translatable :
            LET android_name == android_strings[k].name
                raw == RawEnglish(k)
            IN /\ \A j \in ExactAt(raw) :
                      HoldsValue(j) =>
                          /\ via[android_name] = "exact"
                          /\ WrittenTexts(android_name) =
                                {Emitted(ios_strings[j].localizations[target_lang])}
               /\ via[android_name] = "normalized" =>
                      ~\E j \in ExactAt(raw) : HoldsValue(j)
               /\ via[android_name] = "generic" =>
                      ~\E j \in ExactAt(raw) \cup NormalizedAt(raw) : HoldsValue(j)

C4_Witness ==
    /\ pc = "write"
    /\ \E k \in Translatable :
          \E j \in ExactAt(RawEnglish(k)) :
              \E h \in NormalizedAt(RawEnglish(k)) :
                  /\ h < j
                  /\ HoldsValue(j)
                  /\ HoldsValue(h)
                  /\ Emitted(ios_strings[h].localizations[target_lang])
                        # Emitted(ios_strings[j].localizations[target_lang])
                  /\ android_strings[k].name \in Range(WrittenNames)

\* the names of the translated records among the first n, in order
RECURSIVE TranslatedNames(_)
TranslatedNames(n) ==
    IF n = 0 THEN <<>>
    ELSE IF /\ android_strings[n].name \in DOMAIN via
            /\ via[android_strings[n].name] # "none"
         THEN Append(TranslatedNames(n - 1), android_strings[n].name)
         ELSE TranslatedNames(n - 1)

(* C5: the document holds one entry for each translated name and none for  *)
(* any other, in the order of the destination records                      *)
C5_OneEntryEachInOrder ==
    /\ pc = "emit" => WrittenNames = TranslatedNames(i - 1)
    /\ pc = "write" => WrittenNames = TranslatedNames(Len(android_strings))
    /\ \A a, b \in 1..Len(WrittenNames) : a # b => WrittenNames[a] # WrittenNames[b]

C5_Witness ==
    /\ pc = "write"
    /\ Len(WrittenNames) >= 2

(* C6: converting an already converted text changes nothing *)
C6_ConvertIdempotent ==
    op = "convert" => convert_ios_format_to_android(text) = text

C6_Witness ==
    /\ op = "convert"
    /\ text # src
    /\ Len(src) = MaxLen

(* C7: unescaping the escaped form of a text gives the text back *)
C7_UnescapeInvertsEscape ==
    op = "escape" => unescape_android_xml(text) = src

(* C8, as claimed: a translation of the normalized step is the one of the  *)
(* first source record whose normalized key equals the normalized text     *)
C8_FirstNormalizedRecord ==
    pc = "write" =>
        \A k \in Translatable :
            via[android_strings[k].name] = "normalized" =>
                WrittenTexts(android_strings[k].name) =
                    {Emitted(StringUnitValue(
                        ios_strings[Least(NormalizedAt(RawEnglish(k)))], target_lang))}

(* C8, amended: a translation of the normalized step is the one of the     *)
(* first source record whose normalized key equals the normalized text     *)
(* and that holds a non-empty value for the locale                         *)
C8_FirstTranslatedNormalizedRecord ==
    pc = "write" =>
        \A k \in Translatable :
            via[android_strings[k].name] = "normalized" =>
                LET holding == {j \in NormalizedAt(RawEnglish(k)) : HoldsValue(j)}
                IN /\ holding # {}
                   /\ WrittenTexts(android_strings[k].name) =
                         {Emitted(ios_strings[Least(holding)].localizations[target_lang])}

C8_Witness ==
    /\ pc = "write"
    /\ \E k \in Translatable :
          /\ via[android_strings[k].name] = "normalized"
          /\ \E j, h \in NormalizedAt(RawEnglish(k)) :
                /\ j < h
                /\ HoldsValue(j)
                /\ HoldsValue(h)
                /\ Emitted(ios_strings[j].localizations[target_lang])
                      # Emitted(ios_strings[h].localizations[target_lang])

(* C9: converting then escaping equals escaping then converting *)
C9_ConvertEscapeCommute ==
    /\ op = "convert" =>
          escape_android_xml(text)
              = convert_ios_format_to_android(escape_android_xml(src))
    /\ op = "escape" =>
          convert_ios_format_to_android(text)
              = escape_android_xml(convert_ios_format_to_android(src))

C9_Witness ==
    /\ op = "convert"
    /\ text # src
    /\ StartsWith(src, <<"@">>)
    /\ escape_android_xml(text) # <<"\\">> \o text

\* t holds one of the placeholders convert_ios_format_to_android rewrites
HasIosPlaceholder(t) == convert_ios_format_to_android(t) # t

(* C10: converting the iOS form of a text whose placeholders are %s, %d,   *)
(* %N$s and %N$d gives the text back                                       *)
C10_ConvertUndoesIosFormat ==
    (op = "ios_format" /\ ~HasIosPlaceholder(src)) =>
        convert_ios_format_to_android(text) = src

====
